---- MODULE Spec2Model ----
(***************************************************************************)
(* Tenancy audit core: the hash-chained ledger, the verdict engine and the *)
(* rent-slab calculator of audit_engine.py.                                *)
(*                                                                         *)
(* Modelling conventions                                                   *)
(*  - An Optional value is a sequence of length at most one: <<>> is None, *)
(*    <<x>> is x.                                                          *)
(*  - SHA-256 is modelled as an injective function on strings (no          *)
(*    collisions): the digest of s is the string "sha256(s)".  json.dumps  *)
(*    is modelled by TLC's ToString, which is injective on the values used *)
(*    here and prints record fields in sorted order (sort_keys=True).      *)
(*  - A Firestore ledger collection is a function from document ids to     *)
(*    entries.  The document id f"{idx:06d}" is modelled by idx itself.    *)
(*  - One (namespace, agreement id) chain is modelled.                     *)
(***************************************************************************)
EXTENDS Integers, Sequences, FiniteSets, TLC

VARIABLES store,      \* ledger collection: document id -> entry
          genuine,    \* history: the entries exactly as ledger_append wrote them
          pc,         \* per writer: "idle" or "write" (between head read and set)
          last,       \* per writer: the head read by _ledger_head (Optional)
          arg,        \* per writer: the payload of the call in progress (Optional)
          ret,        \* value returned by the last completed ledger call
          tampers,    \* number of out-of-band modifications made so far
          slab,       \* last allowed_increase_pct call: <<>> or <<current, avg, pct>>
          req,        \* the audit request (arguments of audit_contract)
          res,        \* the audit result: <<>> before the call, <<result>> after
          merge,      \* last _merge_markers call: <<>> or <<markers, merged>>
          found,      \* last _find_spans call on a character text: <<>> or <<text, outcome>>
          rules,      \* the rule table: which patterns are malformed, whether it is loaded
          app,        \* the Streamlit page of app.py between two script runs
          verdicts    \* last audit_clauses call: <<>> or <<clauses, results>>

vars == <<store, genuine, pc, last, arg, ret, tampers, slab, req, res, merge,
          found, rules, app, verdicts>>

(***************************************************************************)
(* Bounds                                                                  *)
(***************************************************************************)
MaxLen == 3        \* appends stop once the next index would reach MaxLen
MaxTamper == 1     \* out-of-band modifications per behaviour
MaxTextLen == 2    \* phrases in a contract text
MaxClauses == 2    \* numbered clauses in a request
MaxRent == 24      \* rents and benchmarks given to allowed_increase_pct
MaxDay == 92       \* latest day number of a date argument
MaxSpans == 3      \* markers given to _merge_markers
MaxPos == 3        \* largest text offset of a marker
MaxChars == 6      \* characters in a text given to the character-level matcher

Procs == {"w1", "w2"}

\* Ledger payloads (app.py builds a dict of hashes and audit figures).
Payloads == {[verdict |-> "pass"], [verdict |-> "fail"]}

\* Values _now_iso() may return (the clock is not assumed to advance).
Timestamps == {0, 1}

(***************************************************************************)
(* Hashing                                                                 *)
(***************************************************************************)
sha256_text(s) == "sha256(" \o s \o ")"

sha256_json(obj) == sha256_text(ToString(obj))

GENESIS == "GENESIS"

\* json.dumps({"index":…, "ts":…, "payload_hash":…, "prev_hash":…}, sort_keys=True)
Preimage(idx, ts, payload_hash, prev_hash) ==
    ToString([index |-> idx, payload_hash |-> payload_hash,
              prev_hash |-> prev_hash, ts |-> ts])

(***************************************************************************)
(* Queries on the ledger collection                                        *)
(***************************************************************************)
\* order_by("index"): ascending by the index field, ties by document id.
Before(s, d1, d2) ==
    \/ s[d1].index < s[d2].index
    \/ s[d1].index = s[d2].index /\ d1 < d2

RECURSIVE OrderedDocs(_, _)
OrderedDocs(s, D) ==
    IF D = {} THEN <<>>
    ELSE LET d == CHOOSE x \in D : \A y \in D \ {x} : Before(s, x, y)
         IN  <<d>> \o OrderedDocs(s, D \ {d})

\* order_by("index", DESCENDING).limit(1)
_ledger_head(s) ==
    IF DOMAIN s = {} THEN <<>>
    ELSE LET d == CHOOSE x \in DOMAIN s : \A y \in DOMAIN s \ {x} : Before(s, y, x)
         IN  <<s[d]>>

(***************************************************************************)
(* ledger_append                                                           *)
(***************************************************************************)
NextIndex(lastOpt) == IF lastOpt = <<>> THEN 0 ELSE lastOpt[1].index + 1

\* Mutant: the head's index is reused instead of incremented.
NewEntrySameIndex(lastOpt, ts, payload) ==
    LET idx == IF lastOpt = <<>> THEN 0 ELSE lastOpt[1].index
        payload_hash == sha256_json(payload)
        prev_hash == IF lastOpt # <<>> THEN lastOpt[1].this_hash ELSE GENESIS
        this_hash == sha256_text(Preimage(idx, ts, payload_hash, prev_hash))
    IN  [index |-> idx, ts |-> ts, payload |-> payload,
         payload_hash |-> payload_hash, prev_hash |-> prev_hash,
         this_hash |-> this_hash]

\* Mutant: the entry is linked to the head's payload_hash, not its this_hash.
NewEntryLinksPayloadHash(lastOpt, ts, payload) ==
    LET idx == NextIndex(lastOpt)
        payload_hash == sha256_json(payload)
        prev_hash == IF lastOpt # <<>> THEN lastOpt[1].payload_hash ELSE GENESIS
        this_hash == sha256_text(Preimage(idx, ts, payload_hash, prev_hash))
    IN  [index |-> idx, ts |-> ts, payload |-> payload,
         payload_hash |-> payload_hash, prev_hash |-> prev_hash,
         this_hash |-> this_hash]

NewEntry(lastOpt, ts, payload) ==
    LET idx == NextIndex(lastOpt)
        payload_hash == sha256_json(payload)
        prev_hash == IF lastOpt # <<>> THEN lastOpt[1].this_hash ELSE GENESIS
        this_hash == sha256_text(Preimage(idx, ts, payload_hash, prev_hash))
    IN  [index |-> idx, ts |-> ts, payload |-> payload,
         payload_hash |-> payload_hash, prev_hash |-> prev_hash,
         this_hash |-> this_hash]

\* col.document(f"{idx:06d}").set(entry): creates or replaces the document.
DocSet(s, d, entry) ==
    [x \in DOMAIN s \cup {d} |-> IF x = d THEN entry ELSE s[x]]

(***************************************************************************)
(* ledger_verify                                                           *)
(***************************************************************************)
\* Mutant: the link is checked before the hash is recomputed.
RECURSIVE LinkFirstLoop(_, _, _, _)
LinkFirstLoop(s, docs, i, prev) ==
    IF i > Len(docs) THEN <<TRUE, "OK">>
    ELSE LET item == s[docs[i]]
             recomputed == sha256_text(Preimage(item.index, item.ts,
                                                item.payload_hash, item.prev_hash))
         IN  IF prev # <<>> /\ item.prev_hash # prev[1].this_hash
             THEN <<FALSE, "Broken link at index " \o ToString(item.index)>>
             ELSE IF recomputed # item.this_hash
             THEN <<FALSE, "Hash mismatch at index " \o ToString(item.index)>>
             ELSE LinkFirstLoop(s, docs, i + 1, <<item>>)

RECURSIVE VerifyLoop(_, _, _, _)
VerifyLoop(s, docs, i, prev) ==
    IF i > Len(docs) THEN <<TRUE, "OK">>
    ELSE LET item == s[docs[i]]
             recomputed == sha256_text(Preimage(item.index, item.ts,
                                                item.payload_hash, item.prev_hash))
         IN  IF recomputed # item.this_hash
             THEN <<FALSE, "Hash mismatch at index " \o ToString(item.index)>>
             ELSE IF prev # <<>> /\ item.prev_hash # prev[1].this_hash
             THEN <<FALSE, "Broken link at index " \o ToString(item.index)>>
             ELSE VerifyLoop(s, docs, i + 1, <<item>>)

\* Mutant: only the links are checked, the hashes are not recomputed.
RECURSIVE LinksOnlyLoop(_, _, _, _)
LinksOnlyLoop(s, docs, i, prev) ==
    IF i > Len(docs) THEN <<TRUE, "OK">>
    ELSE LET item == s[docs[i]]
         IN  IF prev # <<>> /\ item.prev_hash # prev[1].this_hash
             THEN <<FALSE, "Broken link at index " \o ToString(item.index)>>
             ELSE LinksOnlyLoop(s, docs, i + 1, <<item>>)

ledger_verify_links_only(s) == LinksOnlyLoop(s, OrderedDocs(s, DOMAIN s), 1, <<>>)

\* Mutant: the link of the first entry is checked too, against no entry.
RECURSIVE FirstLinkLoop(_, _, _, _)
FirstLinkLoop(s, docs, i, prev) ==
    IF i > Len(docs) THEN <<TRUE, "OK">>
    ELSE LET item == s[docs[i]]
             recomputed == sha256_text(Preimage(item.index, item.ts,
                                                item.payload_hash, item.prev_hash))
         IN  IF recomputed # item.this_hash
             THEN <<FALSE, "Hash mismatch at index " \o ToString(item.index)>>
             ELSE IF prev = <<>> \/ item.prev_hash # prev[1].this_hash
             THEN <<FALSE, "Broken link at index " \o ToString(item.index)>>
             ELSE FirstLinkLoop(s, docs, i + 1, <<item>>)

ledger_verify_first_link(s) == FirstLinkLoop(s, OrderedDocs(s, DOMAIN s), 1, <<>>)

ledger_verify(s) == VerifyLoop(s, OrderedDocs(s, DOMAIN s), 1, <<>>)

(***************************************************************************)
(* Initial state                                                           *)
(***************************************************************************)
EmptyStore == [d \in {} |-> <<>>]

LedgerInit ==
    /\ store = EmptyStore
    /\ genuine = EmptyStore
    /\ pc = [p \in Procs |-> "idle"]
    /\ last = [p \in Procs |-> <<>>]
    /\ arg = [p \in Procs |-> <<>>]
    /\ ret = <<>>
    /\ tampers = 0

(***************************************************************************)
(* Ledger actions                                                          *)
(***************************************************************************)
\* ledger_append executed without interference: head read and set in one step.
LedgerAppend(payload, ts) ==
    /\ \A p \in Procs : pc[p] = "idle"
    /\ NextIndex(_ledger_head(store)) < MaxLen
    /\ LET entry == NewEntry(_ledger_head(store), ts, payload)
       IN  /\ store' = DocSet(store, entry.index, entry)
           /\ genuine' = DocSet(genuine, entry.index, entry)
           /\ ret' = <<"append", entry>>
    /\ UNCHANGED <<pc, last, arg, tampers, slab, req, res, merge, found, rules, app, verdicts>>

\* ledger_append, first half: last = _ledger_head(...)
AppendRead(p, payload) ==
    /\ pc[p] = "idle"
    /\ NextIndex(_ledger_head(store)) < MaxLen
    /\ last' = [last EXCEPT ![p] = _ledger_head(store)]
    /\ arg' = [arg EXCEPT ![p] = <<payload>>]
    /\ pc' = [pc EXCEPT ![p] = "write"]
    /\ UNCHANGED <<store, genuine, ret, tampers, slab, req, res, merge, found, rules, app, verdicts>>

\* ledger_append, second half: build the entry and set the document.
AppendWrite(p, ts) ==
    /\ pc[p] = "write"
    /\ LET entry == NewEntry(last[p], ts, arg[p][1])
       IN  /\ store' = DocSet(store, entry.index, entry)
           /\ genuine' = DocSet(genuine, entry.index, entry)
           /\ ret' = <<"append", entry>>
    /\ pc' = [pc EXCEPT ![p] = "idle"]
    /\ last' = [last EXCEPT ![p] = <<>>]
    /\ arg' = [arg EXCEPT ![p] = <<>>]
    /\ UNCHANGED <<tampers, slab, req, res, merge, found, rules, app, verdicts>>

LedgerVerify ==
    /\ ret' = <<"verify">> \o ledger_verify(store)
    /\ UNCHANGED <<store, genuine, pc, last, arg, tampers, slab, req, res, merge, found, rules, app, verdicts>>

(***************************************************************************)
(* Out-of-band modification of the stored documents (not done by the core) *)
(***************************************************************************)
BOGUS == "BOGUS"

Recomputed(e) == sha256_text(Preimage(e.index, e.ts, e.payload_hash, e.prev_hash))

FieldValues(s, d, f) ==
    CASE f = "index" -> 0..(MaxLen - 1)
      [] f = "ts" -> Timestamps
      [] f = "payload" -> Payloads
      [] f = "payload_hash" -> {sha256_json(p) : p \in Payloads} \cup {BOGUS}
      [] f = "prev_hash" -> {GENESIS, BOGUS} \cup {s[x].this_hash : x \in DOMAIN s}
      [] f = "this_hash" -> {BOGUS, Recomputed(s[d])}

Fields == {"index", "ts", "payload", "payload_hash", "prev_hash", "this_hash"}

\* One field of one stored entry is overwritten with another value.
TamperField(d, f, v) ==
    /\ tampers < MaxTamper
    /\ d \in DOMAIN store
    /\ v \in FieldValues(store, d, f)
    /\ v # store[d][f]
    /\ store' = [store EXCEPT ![d] = [store[d] EXCEPT ![f] = v]]
    /\ tampers' = tampers + 1
    /\ UNCHANGED <<genuine, pc, last, arg, ret, slab, req, res, merge, found, rules, app, verdicts>>

\* One stored entry is removed.
TamperDelete(d) ==
    /\ tampers < MaxTamper
    /\ d \in DOMAIN store
    /\ store' = [x \in DOMAIN store \ {d} |-> store[x]]
    /\ tampers' = tampers + 1
    /\ UNCHANGED <<genuine, pc, last, arg, ret, slab, req, res, merge, found, rules, app, verdicts>>

\* Two stored entries are reordered: they exchange their index fields.
TamperSwap(d1, d2) ==
    /\ tampers < MaxTamper
    /\ d1 \in DOMAIN store /\ d2 \in DOMAIN store /\ d1 < d2
    /\ store[d1].index # store[d2].index
    /\ store' = [store EXCEPT ![d1].index = store[d2].index,
                              ![d2].index = store[d1].index]
    /\ tampers' = tampers + 1
    /\ UNCHANGED <<genuine, pc, last, arg, ret, slab, req, res, merge, found, rules, app, verdicts>>

(***************************************************************************)
(* Specifications of the ledger                                            *)
(***************************************************************************)
\* The rule table as the module defines it: every pattern of RULES_REGEX
\* compiles, and the table is in place once the module is imported.
RulesLoaded == [malformed |-> {}, loaded |-> TRUE]

\* The page before the first interaction: only the form and the button
\* "Run audit now" are drawn, no button was clicked, no ledger call was made.
AppStart ==
    [page |-> "form", form |-> <<>>, shown |-> <<>>, click |-> "none",
     calls |-> <<>>]

AuditIdle ==
    /\ slab = <<>>
    /\ req = <<>>
    /\ res = <<>>
    /\ merge = <<>>
    /\ found = <<>>
    /\ rules = RulesLoaded
    /\ app = AppStart
    /\ verdicts = <<>>

Init == LedgerInit /\ AuditIdle

\* Appends executed one at a time, no out-of-band modification.
NextSeq ==
    \/ \E payload \in Payloads, ts \in Timestamps : LedgerAppend(payload, ts)
    \/ LedgerVerify

SpecSeq == Init /\ [][NextSeq]_vars

\* Two writers whose appends interleave between the head read and the set.
Next ==
    \/ \E p \in Procs, payload \in Payloads : AppendRead(p, payload)
    \/ \E p \in Procs, ts \in Timestamps : AppendWrite(p, ts)
    \/ LedgerVerify

Spec == Init /\ [][Next]_vars

\* The same two writers with every append stamped 0, and verifications
\* running beside them.
NextMid ==
    \/ \E p \in Procs, payload \in Payloads : AppendRead(p, payload)
    \/ \E p \in Procs : AppendWrite(p, 0)
    \/ LedgerVerify

SpecMid == Init /\ [][NextMid]_vars

\* Sequential appends plus out-of-band modification of the store.  The
\* appends all carry timestamp 0; a modification may set any timestamp.
NextTamper ==
    \/ \E payload \in Payloads : LedgerAppend(payload, 0)
    \/ LedgerVerify
    \/ \E d \in DOMAIN store, f \in Fields :
          \E v \in FieldValues(store, d, f) : TamperField(d, f, v)
    \/ \E d \in DOMAIN store : TamperDelete(d)
    \/ \E d1, d2 \in DOMAIN store : TamperSwap(d1, d2)

SpecTamper == Init /\ [][NextTamper]_vars

(***************************************************************************)
(* Ledger properties                                                       *)
(***************************************************************************)
ChainValid(s) ==
    LET n == Cardinality(DOMAIN s)
    IN  /\ DOMAIN s = 0..(n - 1)
        /\ \A i \in DOMAIN s :
              /\ s[i].index = i
              /\ s[i].this_hash = Recomputed(s[i])
              /\ i = 0 => s[i].prev_hash = GENESIS
              /\ i > 0 => s[i].prev_hash = s[i - 1].this_hash

\* C1: after n >= 1 appends executed one at a time on an empty chain the
\* stored entries have the indices 0..n-1, entry 0 has prev_hash "GENESIS",
\* every later entry's prev_hash is its predecessor's this_hash, and every
\* this_hash is the hash of the entry's own index, ts, payload_hash, prev_hash.
C1_SequentialChainValid ==
    /\ ChainValid(store)
    /\ ret # <<>> /\ ret[1] = "append" =>
          /\ ret[2].index = Cardinality(DOMAIN store) - 1
          /\ store[ret[2].index] = ret[2]

C1_Witness ==
    /\ Cardinality(DOMAIN store) = MaxLen
    /\ ret # <<>> /\ ret[1] = "append"

\* C2: with appends executed one at a time and no out-of-band modification,
\* ledger_verify returns (True, "OK") for every chain length, the empty
\* chain included.
C2_RoundTrip ==
    /\ ledger_verify(store) = <<TRUE, "OK">>
    /\ ret # <<>> /\ ret[1] = "verify" => ret = <<"verify", TRUE, "OK">>

C2_Witness ==
    /\ Cardinality(DOMAIN store) >= 2
    /\ ret = <<"verify", TRUE, "OK">>

\* C3: ledger_verify returns (True, "OK") only for chains in which no stored
\* entry was altered, removed or reordered: the store is then exactly what
\* the appends wrote.
C3_TamperEvident ==
    ledger_verify(store) = <<TRUE, "OK">> => store = genuine

\* C4: when exactly one stored entry's payload_hash differs from the value
\* that makes the chain valid, ledger_verify returns False with the message
\* "Hash mismatch at index N", N being that entry's index.
PayloadHashMutatedAt(s, d) ==
    /\ d \in DOMAIN s
    /\ \E h \in {sha256_json(p) : p \in Payloads} :
          /\ h # s[d].payload_hash
          /\ ChainValid([s EXCEPT ![d].payload_hash = h])

C4_MutationCited ==
    \A d \in DOMAIN store :
        PayloadHashMutatedAt(store, d) =>
            ledger_verify(store) =
                <<FALSE, "Hash mismatch at index " \o ToString(store[d].index)>>

C4_Witness ==
    /\ Cardinality(DOMAIN store) = MaxLen
    /\ PayloadHashMutatedAt(store, 1)
    /\ ret = <<"verify", FALSE, "Hash mismatch at index 1">>

\* C5: entries are append-only: no step of any interleaving of appends and
\* verifications changes or removes an entry that is already stored.
C5_AppendOnly ==
    [][\A d \in DOMAIN store : d \in DOMAIN store' /\ store'[d] = store[d]]_vars

(***************************************************************************)
(* Rule Matcher                                                            *)
(*                                                                         *)
(* A text is a sequence of distinct phrases.  Each rule of RULES_REGEX is  *)
(* represented by the phrase its pattern matches; "benign" matches no      *)
(* rule.  For such texts the patterns yield exactly one match per rule     *)
(* whose phrase occurs, in rule order.  Offsets are phrase positions.      *)
(***************************************************************************)
RULES_REGEX ==
    << [label |-> "Blanket/Discretionary rent increase", severity |-> "high",
        regex |-> "discretion"],
       [label |-> "Eviction without proper notice", severity |-> "high",
        regex |-> "evict"],
       [label |-> "Expiry eviction without 12-month notice", severity |-> "high",
        regex |-> "expiry"],
       [label |-> "90-day renewal notice present", severity |-> "good",
        regex |-> "notice90"],
       [label |-> "All maintenance shifted to tenant", severity |-> "medium",
        regex |-> "maintenance"],
       [label |-> "No Ejari registration reference", severity |-> "info",
        regex |-> "ejari"] >>

Phrases == {RULES_REGEX[i].regex : i \in DOMAIN RULES_REGEX} \cup {"benign"}

\* re.finditer(r["regex"], norm): the positions at which rule r matches.
RECURSIVE Matches(_, _, _)
Matches(r, text, i) ==
    IF i > Len(text) THEN <<>>
    ELSE (IF text[i] = r.regex
          THEN << [issue |-> r.label, severity |-> r.severity,
                   start |-> i - 1, end |-> i] >>
          ELSE <<>>) \o Matches(r, text, i + 1)

RECURSIVE AllSpans(_, _)
AllSpans(text, k) ==
    IF k > Len(RULES_REGEX) THEN <<>>
    ELSE Matches(RULES_REGEX[k], text, 1) \o AllSpans(text, k + 1)

IsGood(span) == span.severity = "good"
IsBad(span) == span.severity # "good"

\* _find_spans(text) -> (bad, good)
_find_spans(text) ==
    [bad |-> SelectSeq(AllSpans(text, 1), IsBad),
     good |-> SelectSeq(AllSpans(text, 1), IsGood)]

(***************************************************************************)
(* Rent-slab calculator.  Amounts are whole AED; current >= avg * 0.90 is  *)
(* 100 * current >= 90 * avg (the floating-point product decides whole     *)
(* amounts the same way).                                                  *)
(***************************************************************************)
\* Mutant: the band boundaries are exclusive.
allowed_increase_pct_exclusive(current, avg) ==
    IF avg = <<>> \/ avg[1] = 0 \/ avg[1] <= 0 THEN 0
    ELSE IF 100 * current > 90 * avg[1] THEN 0
    ELSE IF 100 * current > 80 * avg[1] THEN 5
    ELSE IF 100 * current > 70 * avg[1] THEN 10
    ELSE IF 100 * current > 60 * avg[1] THEN 15
    ELSE 20

allowed_increase_pct_swapped(current, avg) ==
    IF avg = <<>> \/ avg[1] = 0 \/ avg[1] <= 0 THEN 0
    ELSE IF 100 * current >= 90 * avg[1] THEN 0
    ELSE IF 100 * current >= 80 * avg[1] THEN 5
    ELSE IF 100 * current >= 70 * avg[1] THEN 15
    ELSE IF 100 * current >= 60 * avg[1] THEN 10
    ELSE 20

allowed_increase_pct(current, avg) ==
    IF avg = <<>> \/ avg[1] = 0 \/ avg[1] <= 0 THEN 0
    ELSE IF 100 * current >= 90 * avg[1] THEN 0
    ELSE IF 100 * current >= 80 * avg[1] THEN 5
    ELSE IF 100 * current >= 70 * avg[1] THEN 10
    ELSE IF 100 * current >= 60 * avg[1] THEN 15
    ELSE 20

(***************************************************************************)
(* Audit core                                                              *)
(***************************************************************************)
RECURSIVE Issues(_, _)
Issues(bad, i) ==
    IF i > Len(bad) THEN <<>> ELSE <<bad[i].issue>> \o Issues(bad, i + 1)

\* Mutant: a clause fails on any finding, the good ones included.
RECURSIVE audit_clauses_any_finding(_, _)
audit_clauses_any_finding(clauses, i) ==
    IF i > Len(clauses) THEN <<>>
    ELSE LET c == clauses[i]
             bad == _find_spans(c.text).bad \o _find_spans(c.text).good
         IN  << [clause |-> c.num, text |-> c.text,
                 verdict |-> IF bad = <<>> THEN "pass" ELSE "fail",
                 issues |-> Issues(bad, 1)] >>
             \o audit_clauses_any_finding(clauses, i + 1)

RECURSIVE audit_clauses_from(_, _)
audit_clauses_from(clauses, i) ==
    IF i > Len(clauses) THEN <<>>
    ELSE LET c == clauses[i]
             bad == _find_spans(c.text).bad
         IN  << [clause |-> c.num, text |-> c.text,
                 verdict |-> IF bad = <<>> THEN "pass" ELSE "fail",
                 issues |-> Issues(bad, 1)] >>
             \o audit_clauses_from(clauses, i + 1)

\* audit_clauses(clauses); None is read as the empty list.
audit_clauses(clauses) == audit_clauses_from(clauses, 1)

\* A date argument: absent (None), the empty string, a string that
\* datetime.fromisoformat rejects, or an ISO date (a day number).
DateNone == [kind |-> "none", day |-> 0]
DateEmpty == [kind |-> "empty", day |-> 0]
DateBad == [kind |-> "bad", day |-> 0]
IsoDate(d) == [kind |-> "iso", day |-> d]

\* Mutant: a date that cannot be parsed counts as a late notice.
NoticeFlagsInvalidIsLate(renewal_date, notice_sent_date) ==
    IF notice_sent_date.kind \in {"none", "empty"}
    THEN << [label |-> "notice_missing", severity |-> "info"] >>
    ELSE IF renewal_date.kind # "iso" \/ notice_sent_date.kind # "iso"
    THEN << [label |-> "notice_lt_90", severity |-> "high"] >>
    ELSE IF renewal_date.day - notice_sent_date.day < 90
    THEN << [label |-> "notice_lt_90", severity |-> "high"] >>
    ELSE <<>>

\* Mutant: a notice sent exactly 90 days ahead is late.
NoticeFlagsInclusive(renewal_date, notice_sent_date) ==
    IF notice_sent_date.kind \in {"none", "empty"}
    THEN << [label |-> "notice_missing", severity |-> "info"] >>
    ELSE IF renewal_date.kind # "iso" \/ notice_sent_date.kind # "iso"
    THEN << [label |-> "notice_invalid", severity |-> "low"] >>
    ELSE IF renewal_date.day - notice_sent_date.day <= 90
    THEN << [label |-> "notice_lt_90", severity |-> "high"] >>
    ELSE <<>>

\* The 90-day renewal notice check.
NoticeFlags(renewal_date, notice_sent_date) ==
    IF notice_sent_date.kind \in {"none", "empty"}
    THEN << [label |-> "notice_missing", severity |-> "info"] >>
    ELSE IF renewal_date.kind # "iso" \/ notice_sent_date.kind # "iso"
    THEN << [label |-> "notice_invalid", severity |-> "low"] >>
    ELSE IF renewal_date.day - notice_sent_date.day < 90
    THEN << [label |-> "notice_lt_90", severity |-> "high"] >>
    ELSE <<>>

NOTICE_MIN_DAYS == 90

\* check_notice_window(renewal, notice_sent) of the later engine, on
\* Optional[date] arguments: kind "none" or "iso".
check_notice_window(renewal, notice_sent) ==
    IF renewal.kind = "none" \/ notice_sent.kind = "none" THEN "warn"
    ELSE IF renewal.day - notice_sent.day < NOTICE_MIN_DAYS THEN "fail"
    ELSE "pass"

\* The deposit heuristic: soft is 0.10 when furnished, else 0.08.
DepositFlags(deposit, current_rent, furnished) ==
    IF deposit # <<>> /\ deposit[1] # 0 /\ deposit[1] > 0 /\ current_rent > 0
    THEN LET soft == IF furnished = "furnished" THEN 10 ELSE 8
         IN  IF 100 * deposit[1] > soft * current_rent
             THEN << [label |-> "deposit_high", severity |-> "medium"] >>
             ELSE <<>>
    ELSE <<>>

Max(a, b) == IF a >= b THEN a ELSE b

\* Mutant: the increase is taken as a share of the proposed rent.
ProposedPctOfProposed(current_rent, proposed_rent) ==
    [num |-> (proposed_rent - current_rent) * 100, den |-> Max(proposed_rent, 1)]

\* Mutant: a current rent of 0 is reported as no increase.
ProposedPctZeroIsZero(current_rent, proposed_rent) ==
    IF current_rent = 0 THEN [num |-> 0, den |-> 1]
    ELSE [num |-> (proposed_rent - current_rent) * 100, den |-> current_rent]

\* proposed_pct = ((proposed - current) / max(current, 1)) * 100, kept as the
\* fraction num / den.
ProposedPct(current_rent, proposed_rent) ==
    [num |-> (proposed_rent - current_rent) * 100, den |-> Max(current_rent, 1)]

\* Mutant: an increase exactly at the cap is flagged too.
CapFlagsAtCap(current_rent, proposed_rent, rera_avg_index) ==
    LET allowed_pct == allowed_increase_pct(current_rent, rera_avg_index)
        proposed_pct == ProposedPct(current_rent, proposed_rent)
    IN  IF /\ rera_avg_index # <<>> /\ rera_avg_index[1] # 0
           /\ proposed_pct.num >= allowed_pct * proposed_pct.den
        THEN << [label |-> "over_cap", severity |-> "high"] >>
        ELSE <<>>

\* The Decree 43/2013 slab check.
CapFlags(current_rent, proposed_rent, rera_avg_index) ==
    LET allowed_pct == allowed_increase_pct(current_rent, rera_avg_index)
        proposed_pct == ProposedPct(current_rent, proposed_rent)
    IN  IF /\ rera_avg_index # <<>> /\ rera_avg_index[1] # 0
           /\ proposed_pct.num > allowed_pct * proposed_pct.den
        THEN << [label |-> "over_cap", severity |-> "high"] >>
        ELSE <<>>

AnyHigh(seq) == \E i \in DOMAIN seq : seq[i].severity = "high"

\* Mutant: strict mode overlooks the clause results.
FailStrictSkipsClauses(strict_mode, highlights, rule_flags, clause_results) ==
    LET clauses_ok == \A i \in DOMAIN clause_results :
                          clause_results[i].verdict = "pass"
    IN  IF strict_mode
        THEN highlights # <<>> \/ rule_flags # <<>>
        ELSE AnyHigh(highlights) \/ AnyHigh(rule_flags) \/ ~clauses_ok

\* Mutant: lenient mode overlooks the rule flags.
FailLenientSkipsFlags(strict_mode, highlights, rule_flags, clause_results) ==
    LET clauses_ok == \A i \in DOMAIN clause_results :
                          clause_results[i].verdict = "pass"
    IN  IF strict_mode
        THEN highlights # <<>> \/ rule_flags # <<>> \/ ~clauses_ok
        ELSE AnyHigh(highlights) \/ ~clauses_ok

\* Mutant: strict mode blocks on high severity only, like lenient mode.
FailStrictHighOnly(strict_mode, highlights, rule_flags, clause_results) ==
    LET clauses_ok == \A i \in DOMAIN clause_results :
                          clause_results[i].verdict = "pass"
    IN  AnyHigh(highlights) \/ AnyHigh(rule_flags) \/ ~clauses_ok

\* The aggregation at the end of audit_contract.
Fail(strict_mode, highlights, rule_flags, clause_results) ==
    LET clauses_ok == \A i \in DOMAIN clause_results :
                          clause_results[i].verdict = "pass"
    IN  IF strict_mode
        THEN highlights # <<>> \/ rule_flags # <<>> \/ ~clauses_ok
        ELSE AnyHigh(highlights) \/ AnyHigh(rule_flags) \/ ~clauses_ok

audit_contract(a) ==
    LET spans == _find_spans(a.text)
        highlights == spans.bad
        positives == spans.good
        rule_flags ==
            NoticeFlags(a.renewal_date, a.notice_sent_date)
            \o DepositFlags(a.deposit, a.current_rent, a.furnished)
            \o CapFlags(a.current_rent, a.proposed_rent, a.rera_avg_index)
        clause_results == audit_clauses(a.ejari_clauses)
    IN  [verdict |-> IF Fail(a.strict_mode, highlights, rule_flags, clause_results)
                     THEN "fail" ELSE "pass",
         highlights |-> highlights,
         valid_points |-> positives,
         rule_flags |-> rule_flags,
         allowed_increase |->
             [avg_index |-> a.rera_avg_index,
              max_allowed_pct |->
                  allowed_increase_pct(a.current_rent, a.rera_avg_index),
              proposed_pct |-> ProposedPct(a.current_rent, a.proposed_rent)],
         ejari_clause_results |-> clause_results]

(***************************************************************************)
(* Audit requests                                                          *)
(***************************************************************************)
Distinct(seq) == \A i, j \in DOMAIN seq : i # j => seq[i] # seq[j]

SeqsUpTo(S, n) == UNION {[1..k -> S] : k \in 0..n}

Texts == {t \in SeqsUpTo(Phrases, MaxTextLen) : Distinct(t)}

\* Clause texts as the Ejari parser delivers them: one sentence each.
ClauseTexts == {<<"benign">>, <<"evict">>, <<"maintenance">>}

RECURSIVE Numbered(_, _)
Numbered(texts, i) ==
    IF i > Len(texts) THEN <<>>
    ELSE << [num |-> i, text |-> texts[i]] >> \o Numbered(texts, i + 1)

ClauseLists == {Numbered(ts, 1) : ts \in SeqsUpTo(ClauseTexts, MaxClauses)}

\* The remaining arguments, chosen so that every rule flag occurs alone and
\* together with others:
\* <<renewal_date, notice_sent_date, current_rent, proposed_rent,
\*   rera_avg_index, deposit, furnished>>
Scenarios ==
    { <<IsoDate(100), IsoDate(10), 60, 69, <<90>>, <<6>>, "furnished">>,
      <<IsoDate(100), DateNone, 60, 69, <<90>>, <<>>, "unfurnished">>,
      <<IsoDate(100), DateEmpty, 0, 60, <<0>>, <<6>>, "furnished">>,
      <<IsoDate(100), DateBad, 60, 90, <<>>, <<>>, "unfurnished">>,
      <<IsoDate(100), IsoDate(11), 60, 69, <<90>>, <<>>, "unfurnished">>,
      <<IsoDate(100), IsoDate(10), 60, 69, <<90>>, <<6>>, "unfurnished">>,
      <<IsoDate(100), IsoDate(10), 60, 70, <<90>>, <<>>, "unfurnished">>,
      <<IsoDate(100), DateNone, 60, 70, <<90>>, <<6>>, "unfurnished">> }

Request(t, cl, sc, sm) ==
    [text |-> t, ejari_clauses |-> cl, renewal_date |-> sc[1],
     notice_sent_date |-> sc[2], current_rent |-> sc[3],
     proposed_rent |-> sc[4], rera_avg_index |-> sc[5],
     deposit |-> sc[6], furnished |-> sc[7], strict_mode |-> sm]

(***************************************************************************)
(* Audit actions and specifications                                        *)
(***************************************************************************)
AuditContract(a) ==
    /\ req = <<>>
    /\ req' = <<a>>
    /\ res' = <<audit_contract(a)>>
    /\ UNCHANGED <<store, genuine, pc, last, arg, ret, tampers, slab, merge, found, rules, app, verdicts>>

NextAudit ==
    /\ req = <<>>
    /\ \E t \in Texts, cl \in ClauseLists, sc \in Scenarios, sm \in BOOLEAN :
          AuditContract(Request(t, cl, sc, sm))

SpecAudit == Init /\ [][NextAudit]_vars

AllowedIncreasePct(current, avg) ==
    /\ slab = <<>>
    /\ slab' = <<current, avg, allowed_increase_pct(current, avg)>>
    /\ UNCHANGED <<store, genuine, pc, last, arg, ret, tampers, req, res, merge, found, rules, app, verdicts>>

Benchmarks == {<<>>} \cup {<<b>> : b \in (-1)..MaxRent}

NextSlab ==
    /\ slab = <<>>
    /\ \E current \in 0..MaxRent, avg \in Benchmarks :
          AllowedIncreasePct(current, avg)

SpecSlab == Init /\ [][NextSlab]_vars

\* Audits over the arguments other than the contract text: every kind of
\* date argument around the 90-day window, rents around the example of the
\* slab check, and every kind of benchmark.
Days == {0, 1, 2, 3, 90, MaxDay}

RenewalDates == {DateNone, DateBad} \cup {IsoDate(d) : d \in Days}

NoticeDates == {DateNone, DateEmpty, DateBad} \cup {IsoDate(d) : d \in Days}

CurrentRents == {0, 60000}

ProposedRents == {60000, 69000, 70000}

IndexValues == {<<>>, <<0>>, <<-1>>, <<90000>>}

Deposits == {<<>>, <<6000>>}

NextArgs ==
    /\ req = <<>>
    /\ \E t \in {<<"benign">>, <<"maintenance">>},
          cl \in {<<>>, Numbered(<< <<"benign">> >>, 1)},
          rd \in RenewalDates, nd \in NoticeDates,
          cr \in CurrentRents, pr \in ProposedRents, avg \in IndexValues,
          dep \in Deposits, sm \in BOOLEAN :
          AuditContract(Request(t, cl, <<rd, nd, cr, pr, avg, dep,
                                         "unfurnished">>, sm))

SpecArgs == Init /\ [][NextArgs]_vars

(***************************************************************************)
(* Span merger                                                             *)
(***************************************************************************)
\* A marker is a triple <<start, end, kind>> covering the offsets
\* start .. end - 1 of the text.
Kinds == {"bad", "good"}

Markers == {<<s, e, k>> : s \in 0..MaxPos, e \in 0..MaxPos, k \in Kinds}

WellFormed == {x \in Markers : x[1] <= x[2]}

\* key=lambda x: (x[0], -x[1])
KeyLeq(x, y) == x[1] < y[1] \/ (x[1] = y[1] /\ -x[2] <= -y[2])

RECURSIVE Insert(_, _)
Insert(x, s) ==
    IF s = <<>> THEN <<x>>
    ELSE IF KeyLeq(Head(s), x) THEN <<Head(s)>> \o Insert(x, Tail(s))
    ELSE <<x>> \o s

\* sorted(m, key=...): stable, equal keys keep their input order.
RECURSIVE sorted(_)
sorted(m) ==
    IF m = <<>> THEN <<>>
    ELSE Insert(m[Len(m)], sorted(SubSeq(m, 1, Len(m) - 1)))

\* Mutant: a marker is compared with the marker before it rather than with
\* the interval built so far.
RECURSIVE MergeLoopPrevInput(_, _, _)
MergeLoopPrevInput(m, i, out) ==
    IF i > Len(m) THEN out
    ELSE LET s == m[i][1]
             e == m[i][2]
             k == m[i][3]
         IN  IF out = <<>> THEN MergeLoopPrevInput(m, i + 1, << <<s, e, k>> >>)
             ELSE LET ps == out[Len(out)][1]
                      pe == out[Len(out)][2]
                      pk == out[Len(out)][3]
                  IN  IF s <= m[i - 1][2]
                      THEN MergeLoopPrevInput(m, i + 1,
                               [out EXCEPT ![Len(out)] =
                                   <<ps, Max(pe, e),
                                     IF "bad" \in {k, pk} THEN "bad" ELSE "good">>])
                      ELSE MergeLoopPrevInput(m, i + 1, Append(out, <<s, e, k>>))

\* Mutant: the merged interval takes the kind of the marker merged last.
RECURSIVE MergeLoopLastKind(_, _, _)
MergeLoopLastKind(m, i, out) ==
    IF i > Len(m) THEN out
    ELSE LET s == m[i][1]
             e == m[i][2]
             k == m[i][3]
         IN  IF out = <<>> THEN MergeLoopLastKind(m, i + 1, << <<s, e, k>> >>)
             ELSE LET ps == out[Len(out)][1]
                      pe == out[Len(out)][2]
                  IN  IF s <= pe
                      THEN MergeLoopLastKind(m, i + 1,
                               [out EXCEPT ![Len(out)] = <<ps, Max(pe, e), k>>])
                      ELSE MergeLoopLastKind(m, i + 1, Append(out, <<s, e, k>>))

\* Mutant: a merged interval ends where the marker merged last ends.
RECURSIVE MergeLoopLastEnd(_, _, _)
MergeLoopLastEnd(m, i, out) ==
    IF i > Len(m) THEN out
    ELSE LET s == m[i][1]
             e == m[i][2]
             k == m[i][3]
         IN  IF out = <<>> THEN MergeLoopLastEnd(m, i + 1, << <<s, e, k>> >>)
             ELSE LET ps == out[Len(out)][1]
                      pe == out[Len(out)][2]
                      pk == out[Len(out)][3]
                  IN  IF s <= pe
                      THEN MergeLoopLastEnd(m, i + 1,
                               [out EXCEPT ![Len(out)] =
                                   <<ps, e,
                                     IF "bad" \in {k, pk} THEN "bad" ELSE "good">>])
                      ELSE MergeLoopLastEnd(m, i + 1, Append(out, <<s, e, k>>))

\* The loop of _merge_markers over the sorted markers m, from marker i on,
\* with out the intervals built so far.
RECURSIVE MergeLoop(_, _, _)
MergeLoop(m, i, out) ==
    IF i > Len(m) THEN out
    ELSE LET s == m[i][1]
             e == m[i][2]
             k == m[i][3]
         IN  IF out = <<>> THEN MergeLoop(m, i + 1, << <<s, e, k>> >>)
             ELSE LET ps == out[Len(out)][1]
                      pe == out[Len(out)][2]
                      pk == out[Len(out)][3]
                  IN  IF s <= pe
                      THEN MergeLoop(m, i + 1,
                               [out EXCEPT ![Len(out)] =
                                   <<ps, Max(pe, e),
                                     IF "bad" \in {k, pk} THEN "bad" ELSE "good">>])
                      ELSE MergeLoop(m, i + 1, Append(out, <<s, e, k>>))

_merge_markers(m) == IF m = <<>> THEN <<>> ELSE MergeLoop(sorted(m), 1, <<>>)

MergeMarkers(m) ==
    /\ merge = <<>>
    /\ merge' = <<m, _merge_markers(m)>>
    /\ UNCHANGED <<store, genuine, pc, last, arg, ret, tampers, slab, req, res,
                   found, rules, app, verdicts>>

NextMerge ==
    /\ merge = <<>>
    /\ \E m \in SeqsUpTo(WellFormed, MaxSpans) : MergeMarkers(m)

SpecMerge == Init /\ [][NextMerge]_vars

(***************************************************************************)
(* Rule Matcher on characters                                              *)
(*                                                                         *)
(* A text is a sequence of characters; offsets count from 0 as in Python.  *)
(* Each word is written with one letter: t = tenant, a = all,              *)
(* m = maintenance, e = ejari; " " is any whitespace character.  Letter    *)
(* case and the quote and dash replacements of _normalize_text, which keep *)
(* every offset, are left out.                                             *)
(***************************************************************************)
Chars == {" ", "t", "a", "m", "e"}

IsWord(c) == c # " "

\* re.sub(r"\s+", " ", s): every run of whitespace becomes one space.
RECURSIVE _normalize_text(_)
_normalize_text(s) ==
    IF s = <<>> THEN s
    ELSE IF Len(s) >= 2 /\ ~IsWord(s[1]) /\ ~IsWord(s[2])
    THEN _normalize_text(Tail(s))
    ELSE <<s[1]>> \o _normalize_text(Tail(s))

\* \b at offset k: a word character on exactly one side.
Boundary(s, k) ==
    (k >= 1 /\ IsWord(s[k])) # (k < Len(s) /\ IsWord(s[k + 1]))

\* Offsets at which a match of \ba\s+m\b ends when its a is at offset j.
TailEnds(s, j) ==
    {q + 1 : q \in {q \in (j + 2)..(Len(s) - 1) :
        /\ Boundary(s, j) /\ s[j + 1] = "a"
        /\ \A x \in (j + 2)..q : ~IsWord(s[x])
        /\ s[q + 1] = "m" /\ Boundary(s, q + 1)}}

\* Ends of the matches of \bt\b.*\ba\s+m\b ("All maintenance shifted to
\* tenant") that start at offset i.
MaintenanceEnds(s, i) ==
    IF i < Len(s) /\ Boundary(s, i) /\ s[i + 1] = "t" /\ Boundary(s, i + 1)
    THEN UNION {TailEnds(s, j) : j \in (i + 1)..Len(s)}
    ELSE {}

\* Ends of the matches of \be\b(?!\w) ("No Ejari registration reference")
\* that start at offset i.
EjariEnds(s, i) ==
    IF /\ i < Len(s) /\ Boundary(s, i) /\ s[i + 1] = "e"
       /\ (i + 1 = Len(s) \/ ~IsWord(s[i + 2]))
    THEN {i + 1} ELSE {}

CharRules ==
    << [label |-> "All maintenance shifted to tenant", severity |-> "medium",
        regex |-> "maintenance"],
       [label |-> "No Ejari registration reference", severity |-> "info",
        regex |-> "ejari"] >>

Ends(regex, s, i) ==
    IF regex = "maintenance" THEN MaintenanceEnds(s, i) ELSE EjariEnds(s, i)

SetMax(S) == CHOOSE x \in S : \A y \in S : y <= x

\* re.finditer(regex, s): the leftmost match from offset i on, taken as long
\* as the greedy .* allows, then the matches after its end.
RECURSIVE finditer(_, _, _)
finditer(regex, s, i) ==
    IF i >= Len(s) THEN <<>>
    ELSE IF Ends(regex, s, i) = {} THEN finditer(regex, s, i + 1)
    ELSE LET e == SetMax(Ends(regex, s, i))
         IN  << <<i, e>> >> \o finditer(regex, s, e)

\* text[a:b]
Slice(text, a, b) == SubSeq(text, a + 1, IF b <= Len(text) THEN b ELSE Len(text))

\* str.find(sub): the first offset at which sub occurs, or -1.
StrFind(text, sub) ==
    LET at == {k \in 0..(Len(text) - Len(sub)) :
                  Slice(text, k, k + Len(sub)) = sub}
    IN  IF at = {} THEN -1 ELSE CHOOSE k \in at : \A x \in at : k <= x

\* str.strip()
RECURSIVE Strip(_)
Strip(s) ==
    IF s = <<>> THEN s
    ELSE IF ~IsWord(s[1]) THEN Strip(Tail(s))
    ELSE IF ~IsWord(s[Len(s)]) THEN Strip(SubSeq(s, 1, Len(s) - 1))
    ELSE s

\* The span built for one match m = <<m.start(), m.end()>> of rule r.
Span(r, text, norm, m) ==
    LET snippet == Slice(norm, m[1], m[2])
        pos == StrFind(text, snippet)
        orig_start == IF pos = -1 THEN m[1] ELSE pos
        orig_end == IF pos # -1 THEN pos + Len(snippet) ELSE m[2]
    IN  [issue |-> r.label, severity |-> r.severity,
         start |-> orig_start, end |-> orig_end,
         excerpt |-> Strip(Slice(text, orig_start, orig_end))]

RECURSIVE SpansOf(_, _, _, _, _)
SpansOf(r, text, norm, ms, i) ==
    IF i > Len(ms) THEN <<>>
    ELSE <<Span(r, text, norm, ms[i])>> \o SpansOf(r, text, norm, ms, i + 1)

RECURSIVE RuleSpans(_, _, _)
RuleSpans(text, norm, k) ==
    IF k > Len(CharRules) THEN <<>>
    ELSE SpansOf(CharRules[k], text, norm,
                 finditer(CharRules[k].regex, norm, 0), 1)
         \o RuleSpans(text, norm, k + 1)

\* _find_spans(text) on a character text: the spans of every rule, in rule
\* order (both rules modelled here are adverse).
FindSpansChars(text) == RuleSpans(text, _normalize_text(text), 1)

RegexError == "re.error"

\* One call of _find_spans: re.finditer compiles the pattern of each rule
\* when the loop reaches it, and raises re.error on a malformed one.
FindSpans(text) ==
    /\ found = <<>>
    /\ rules.loaded
    /\ found' = <<text, IF rules.malformed # {} THEN RegexError
                        ELSE FindSpansChars(text)>>
    /\ UNCHANGED <<store, genuine, pc, last, arg, ret, tampers, slab, req, res,
                   merge, rules, app, verdicts>>

NextFind ==
    /\ found = <<>>
    /\ \E text \in SeqsUpTo(Chars, MaxChars) : FindSpans(text)

SpecFind == Init /\ [][NextFind]_vars

\* The process is started again with an edited rule table: the patterns in
\* bad no longer compile.
Redeploy(bad) ==
    /\ found = <<>>
    /\ rules.loaded
    /\ rules' = [malformed |-> bad, loaded |-> FALSE]
    /\ UNCHANGED <<store, genuine, pc, last, arg, ret, tampers, slab, req, res,
                   merge, found, app, verdicts>>

\* Import of the module: RULES_REGEX = [dict(..., regex=r"...", ...), ...]
\* builds a list of pattern strings and compiles none of them.
ImportModule ==
    /\ ~rules.loaded
    /\ rules' = [rules EXCEPT !.loaded = TRUE]
    /\ UNCHANGED <<store, genuine, pc, last, arg, ret, tampers, slab, req, res,
                   merge, found, app, verdicts>>

NextRules ==
    \/ \E bad \in SUBSET {CharRules[k].regex : k \in DOMAIN CharRules} :
          Redeploy(bad)
    \/ ImportModule
    \/ /\ found = <<>>
       /\ \E text \in SeqsUpTo(Chars, MaxChars) : FindSpans(text)

SpecRules == Init /\ [][NextRules]_vars

(***************************************************************************)
(* audit_clauses called on its own                                         *)
(***************************************************************************)
\* Clause texts with no finding, with one finding of every severity, and
\* with a good and an adverse finding together.
AnyClauseTexts ==
    {<<ph>> : ph \in Phrases}
        \cup {<<"notice90", "evict">>, <<"evict", "maintenance">>,
              <<"benign", "notice90">>}

AnyClauseLists ==
    {Numbered(ts, 1) : ts \in SeqsUpTo(AnyClauseTexts, MaxClauses)}

AuditClauses(clauses) ==
    /\ verdicts = <<>>
    /\ verdicts' = <<clauses, audit_clauses(clauses)>>
    /\ UNCHANGED <<store, genuine, pc, last, arg, ret, tampers, slab, req, res,
                   merge, found, rules, app>>

NextClauses ==
    /\ verdicts = <<>>
    /\ \E clauses \in AnyClauseLists : AuditClauses(clauses)

SpecClauses == Init /\ [][NextClauses]_vars

(***************************************************************************)
(* The Streamlit page of app.py                                            *)
(*                                                                         *)
(* Every interaction runs the script from top to bottom; a button returns  *)
(* True only in the run its own click triggers.  Nothing is kept in        *)
(* st.session_state, so result lives for one run.  The page is "audited"   *)
(* when the last run drew the audit block (result, export, ledger          *)
(* buttons), "form" otherwise.                                             *)
(***************************************************************************)
Buttons == {"run", "append", "verify"}

\* The buttons drawn on the page: the ledger buttons are inside the block
\* of "Run audit now".
Visible ==
    IF app.page = "audited" THEN Buttons ELSE {"run"}

\* The user clicks a button that is on the page.
Click(b) ==
    /\ app.click = "none"
    /\ b \in Visible
    /\ app' = [app EXCEPT !.click = b]
    /\ UNCHANGED <<store, genuine, pc, last, arg, ret, tampers, slab, req, res,
                   merge, found, rules, verdicts>>

\* if allowed_pct_override > 0:
\*     result["allowed_increase"]["max_allowed_pct"] = int(allowed_pct_override)
Overridden(result, allowed_pct_override) ==
    IF allowed_pct_override > 0
    THEN [result EXCEPT !.allowed_increase.max_allowed_pct = allowed_pct_override]
    ELSE result

\* The payload of "Append ledger entry".
LedgerPayload(a, result) ==
    [contract_sha256 |-> sha256_json(a.text),
     audit_sha256 |-> sha256_json(result),
     rera_avg |-> result.allowed_increase.avg_index,
     max_allowed_pct |-> result.allowed_increase.max_allowed_pct,
     proposed_pct |-> result.allowed_increase.proposed_pct,
     verdict |-> result.verdict]

\* One run of the script after a click, with the widget values a and
\* allowed_pct_override.
ScriptRun(a, allowed_pct_override) ==
    /\ app.click # "none"
    /\ LET run_clicked == app.click = "run"
           append_clicked == app.click = "append"
           verify_clicked == app.click = "verify"
           result == Overridden(audit_contract(a), allowed_pct_override)
       IN  app' =
             IF run_clicked
             THEN [page |-> "audited", form |-> <<a>>, shown |-> <<result>>,
                   click |-> "none",
                   calls |-> app.calls
                       \o (IF append_clicked
                           THEN << <<"ledger_append", LedgerPayload(a, result)>> >>
                           ELSE <<>>)
                       \o (IF verify_clicked
                           THEN << <<"ledger_verify">> >> ELSE <<>>)]
             ELSE [page |-> "form", form |-> <<>>, shown |-> <<>>,
                   click |-> "none", calls |-> app.calls]
    /\ UNCHANGED <<store, genuine, pc, last, arg, ret, tampers, slab, req, res,
                   merge, found, rules, verdicts>>

\* Widget values: the app always passes ISO dates and a deposit.
AppScenarios ==
    {<<IsoDate(MaxDay), IsoDate(0), 60000, pr, avg, dep, "unfurnished">> :
        pr \in ProposedRents, avg \in {<<>>, <<90000>>},
        dep \in {<<0>>, <<6000>>}}

Overrides == {0, 20}

NextApp ==
    \/ /\ app.click = "none"
       /\ \E b \in Buttons : Click(b)
    \/ /\ app.click # "none"
       /\ \E sc \in AppScenarios, sm \in BOOLEAN, o \in Overrides :
             ScriptRun(Request(<<"benign">>, <<>>, sc, sm), o)

SpecApp == Init /\ [][NextApp]_vars

(***************************************************************************)
(* Verdict properties                                                      *)
(***************************************************************************)
Audited == req # <<>> /\ res # <<>>

WithStrict(a, sm) == [a EXCEPT !.strict_mode = sm]

SomeHigh(seq) == \E i \in DOMAIN seq : seq[i].severity = "high"

\* C6: strict mode is at least as restrictive as lenient mode: whenever the
\* audit of a request with strict_mode = False yields fail, the audit of the
\* same request with strict_mode = True yields fail.
C6_StrictAtLeastLenient ==
    (Audited /\ ~req[1].strict_mode /\ res[1].verdict = "fail") =>
        audit_contract(WithStrict(req[1], TRUE)).verdict = "fail"

\* A lenient audit that fails on a failing clause alone: no text finding and
\* no rule flag.
C6_Witness ==
    /\ Audited /\ ~req[1].strict_mode
    /\ res[1].verdict = "fail"
    /\ res[1].highlights = <<>> /\ res[1].rule_flags = <<>>

C8_StrictVerdict ==
    (Audited /\ req[1].strict_mode) =>
        LET r == res[1]
            blocking == \/ Len(r.highlights) >= 1
                        \/ Len(r.rule_flags) >= 1
                        \/ \E i \in DOMAIN r.ejari_clause_results :
                              r.ejari_clause_results[i].verdict # "pass"
        IN  /\ r.verdict = "fail" <=> blocking
            /\ r.verdict = "pass" <=> ~blocking

\* A strict audit that fails on an info-severity rule flag alone.
C8_Witness ==
    /\ Audited /\ req[1].strict_mode
    /\ res[1].verdict = "fail"
    /\ res[1].highlights = <<>>
    /\ Len(res[1].rule_flags) = 1 /\ res[1].rule_flags[1].severity = "info"
    /\ Len(res[1].ejari_clause_results) = MaxClauses
    /\ \A i \in DOMAIN res[1].ejari_clause_results :
          res[1].ejari_clause_results[i].verdict = "pass"

\* C9: with strict mode off only high severity issues cause fail: when no
\* text finding, no rule flag and no finding inside any numbered clause has
\* severity high, the lenient audit returns pass.
ClauseFindings(c) == _find_spans(c.text).bad \o _find_spans(c.text).good

C9_OnlyHighFails ==
    ( /\ Audited /\ ~req[1].strict_mode
      /\ ~SomeHigh(res[1].highlights) /\ ~SomeHigh(res[1].valid_points)
      /\ ~SomeHigh(res[1].rule_flags)
      /\ \A i \in DOMAIN req[1].ejari_clauses :
            ~SomeHigh(ClauseFindings(req[1].ejari_clauses[i])) )
    => res[1].verdict = "pass"

(***************************************************************************)
(* Rent-slab properties                                                    *)
(***************************************************************************)
\* C10: allowed_increase_pct follows the step table with inclusive lower
\* boundaries: 0 when the benchmark is missing or <= 0; otherwise 0 when
\* current >= 0.90 b, 5 when 0.80 b <= current < 0.90 b, 10 when
\* 0.70 b <= current < 0.80 b, 15 when 0.60 b <= current < 0.70 b and 20
\* when current < 0.60 b; the result is always one of 0, 5, 10, 15, 20.
C10_StepTable ==
    slab # <<>> =>
        LET c == slab[1]
            avg == slab[2]
            pct == slab[3]
        IN  /\ pct \in {0, 5, 10, 15, 20}
            /\ avg = <<>> => pct = 0
            /\ avg # <<>> =>
                  LET b == avg[1]
                  IN  /\ b <= 0 => pct = 0
                      /\ (b > 0 /\ 10 * c >= 9 * b) => pct = 0
                      /\ (b > 0 /\ 10 * c >= 8 * b /\ 10 * c < 9 * b) => pct = 5
                      /\ (b > 0 /\ 10 * c >= 7 * b /\ 10 * c < 8 * b) => pct = 10
                      /\ (b > 0 /\ 10 * c >= 6 * b /\ 10 * c < 7 * b) => pct = 15
                      /\ (b > 0 /\ 10 * c < 6 * b) => pct = 20

\* A call exactly on the 0.70 boundary.
C10_Witness == slab = <<14, <<20>>, 10>>


\* C11 as stated: the allowed percentage grows with the current rent: for a
\* fixed benchmark > 0 and current1 <= current2,
\* allowed_increase_pct(current1, b) <= allowed_increase_pct(current2, b).
C11_GrowsWithCurrent ==
    (slab # <<>> /\ slab[2] # <<>> /\ slab[2][1] > 0) =>
        \A current1 \in 0..slab[1] :
            allowed_increase_pct(current1, slab[2]) <= slab[3]

\* C11: the allowed percentage never grows with the current rent: for a
\* fixed benchmark > 0 and current1 <= current2,
\* allowed_increase_pct(current1, b) >= allowed_increase_pct(current2, b).
C11_Monotone ==
    (slab # <<>> /\ slab[2] # <<>> /\ slab[2][1] > 0) =>
        \A current1 \in 0..slab[1] :
            allowed_increase_pct(current1, slab[2]) >= slab[3]

\* A call whose result is strictly below the result for a smaller current
\* rent, and above none of them: the table really steps down.
C11_Witness ==
    /\ slab # <<>> /\ slab[2] # <<>> /\ slab[2][1] > 0
    /\ slab[3] = 10
    /\ \E current1 \in 0..slab[1] :
          allowed_increase_pct(current1, slab[2]) = 20

(***************************************************************************)
(* Slab check inside the audit                                             *)
(***************************************************************************)
OverCap(r) ==
    \E i \in DOMAIN r.rule_flags :
        r.rule_flags[i] = [label |-> "over_cap", severity |-> "high"]

IsExample(a) ==
    /\ a.current_rent = 60000 /\ a.proposed_rent = 70000
    /\ a.rera_avg_index = <<90000>> /\ ~a.strict_mode

\* C12 as stated: for current = 60000, proposed = 70000, benchmark = 90000
\* and strict = false the audit reports allowed_pct = 20 and raises no
\* over-cap flag.
C12_ExampleAllowsTwenty ==
    (Audited /\ IsExample(req[1])) =>
        /\ res[1].allowed_increase.max_allowed_pct = 20
        /\ ~OverCap(res[1])

\* C12: for current = 60000, proposed = 70000, benchmark = 90000 and
\* strict = false the audit reports allowed_pct = 15 and proposed_pct = 50/3
\* (about 16.7), raises the over-cap flag with severity high, and fails.
C12_ExampleAllowsFifteen ==
    (Audited /\ IsExample(req[1])) =>
        /\ res[1].allowed_increase.max_allowed_pct = 15
        /\ 3 * res[1].allowed_increase.proposed_pct.num
              = 50 * res[1].allowed_increase.proposed_pct.den
        /\ OverCap(res[1])
        /\ res[1].verdict = "fail"

\* The example audited with nothing else to report: the over-cap flag is the
\* only finding.
C12_Witness ==
    /\ Audited /\ IsExample(req[1])
    /\ res[1].highlights = <<>>
    /\ res[1].rule_flags = << [label |-> "over_cap", severity |-> "high"] >>
    /\ res[1].ejari_clause_results = <<>>

\* C13 as stated: rule_flags contains the over-cap flag exactly when a
\* benchmark is given (not None) and proposed_pct > allowed_increase_pct.
C13_OverCapIffGiven ==
    Audited =>
        LET ai == res[1].allowed_increase
        IN  OverCap(res[1]) <=>
                /\ req[1].rera_avg_index # <<>>
                /\ ai.proposed_pct.num > ai.max_allowed_pct * ai.proposed_pct.den

\* C13: rule_flags contains the over-cap flag (severity high) exactly when
\* a benchmark is given, is not 0, and proposed_pct > allowed_increase_pct;
\* with no benchmark, or benchmark 0, the flag is never raised.
C13_OverCapIffNonZero ==
    Audited =>
        LET ai == res[1].allowed_increase
            avg == req[1].rera_avg_index
        IN  /\ OverCap(res[1]) <=>
                  /\ avg # <<>> /\ avg[1] # 0
                  /\ ai.proposed_pct.num
                        > ai.max_allowed_pct * ai.proposed_pct.den
            /\ (avg = <<>> \/ avg = <<0>>) => ~OverCap(res[1])
            /\ \A i \in DOMAIN res[1].rule_flags :
                  res[1].rule_flags[i].label = "over_cap"
                      => res[1].rule_flags[i].severity = "high"

\* An increase exactly at the cap (15 per cent against an allowed 15) passes
\* the slab check.
C13_Witness ==
    /\ Audited /\ req[1].rera_avg_index # <<>>
    /\ res[1].allowed_increase.max_allowed_pct = 15
    /\ res[1].allowed_increase.proposed_pct.num
          = 15 * res[1].allowed_increase.proposed_pct.den
    /\ ~OverCap(res[1])

(***************************************************************************)
(* Span merger properties                                                  *)
(***************************************************************************)
Merged == merge # <<>>

\* The offsets start .. end - 1 covered by a marker.
Covers(x, pos) == x[1] <= pos /\ pos < x[2]

\* C14: the span merger is idempotent: for every list X of markers with
\* start <= end and kind bad or good,
\* _merge_markers(_merge_markers(X)) = _merge_markers(X).
C14_Idempotent == Merged => _merge_markers(merge[2]) = merge[2]

\* A call that merged some markers and still returned several intervals.
C14_Witness ==
    /\ Merged
    /\ Len(merge[1]) = MaxSpans
    /\ Len(merge[2]) = 2
    /\ \E i \in DOMAIN merge[2] : \A j \in DOMAIN merge[1] :
          merge[1][j] # merge[2][i]

\* C15: dominance: every offset covered by a bad marker of the input is
\* covered by a bad interval of the output.
C15_Dominance ==
    Merged =>
        \A i \in DOMAIN merge[1] : \A pos \in 0..MaxPos :
            (merge[1][i][3] = "bad" /\ Covers(merge[1][i], pos)) =>
                \E j \in DOMAIN merge[2] :
                    merge[2][j][3] = "bad" /\ Covers(merge[2][j], pos)

\* A bad marker overlapped by good markers on both sides: the one merged
\* interval is bad and reaches beyond the bad marker.
C15_Witness ==
    /\ Merged
    /\ merge[1] = << <<0, MaxPos, "good">>, <<0, 1, "bad">>, <<1, MaxPos, "good">> >>
    /\ merge[2] = << <<0, MaxPos, "bad">> >>

\* C16: two markers that touch without overlapping, [a, b) and [b, c) with
\* a < b < c, are never merged: both remain separate intervals of the
\* output.
C16_AdjacentStaySeparate ==
    ( /\ Merged /\ Len(merge[1]) = 2
      /\ merge[1][1][1] < merge[1][1][2]
      /\ merge[1][1][2] = merge[1][2][1]
      /\ merge[1][2][1] < merge[1][2][2] )
    => merge[2] = merge[1]

(***************************************************************************)
(* Verification failure and later appends                                  *)
(***************************************************************************)
VerifyFails(s) == ledger_verify(s)[1] = FALSE

\* A step of ledger_append: the store changes and nothing was modified out
\* of band.
AppendStep == store' # store /\ tampers' = tampers

\* C17: a verification failure never blocks appends and is never repaired
\* by them: from a state where ledger_verify returns false, an append adds
\* a new entry at head.index + 1, leaves every stored entry as it is, and
\* ledger_verify still returns false afterwards.
C17_FailureSurvivesAppend ==
    [][(VerifyFails(store) /\ AppendStep) =>
          /\ \E d \in DOMAIN store' \ DOMAIN store :
                /\ DOMAIN store' = DOMAIN store \cup {d}
                /\ store'[d].index = _ledger_head(store)[1].index + 1
          /\ \A d \in DOMAIN store : store'[d] = store[d]
          /\ VerifyFails(store')]_vars

(***************************************************************************)
(* Input quality and the notice window                                     *)
(***************************************************************************)
NoticeLabels == {"notice_missing", "notice_invalid", "notice_lt_90"}

\* The flags of the notice check among the rule flags of a result.
NoticeFlagsOf(r) ==
    {i \in DOMAIN r.rule_flags : r.rule_flags[i].label \in NoticeLabels}

HasFlag(r, label) ==
    \E i \in DOMAIN r.rule_flags : r.rule_flags[i].label = label

C19_MissingNoticeNonBlocking ==
    ( /\ Audited
      /\ req[1].notice_sent_date.kind \in {"none", "empty"}
      /\ req[1].renewal_date.kind = "iso"
      /\ audit_contract([req[1] EXCEPT !.notice_sent_date =
              IsoDate(req[1].renewal_date.day - 90)]).verdict = "pass" )
    => res[1].verdict = "pass"

\* C20: when both dates are given and parse, the notice check reports a
\* high notice flag (check_notice_window: fail) exactly when renewal_date -
\* notice_sent_date in whole days is below 90, negative differences
\* included, and no notice flag (check_notice_window: pass) when it is at
\* least 90; 90 days passes and 89 days fails.
C20_NoticeWindow ==
    (Audited /\ req[1].renewal_date.kind = "iso"
             /\ req[1].notice_sent_date.kind = "iso") =>
        LET r == res[1]
            days == req[1].renewal_date.day - req[1].notice_sent_date.day
            late == \E i \in DOMAIN r.rule_flags :
                        r.rule_flags[i] = [label |-> "notice_lt_90",
                                           severity |-> "high"]
            state == check_notice_window(req[1].renewal_date,
                                         req[1].notice_sent_date)
        IN  /\ late <=> days < 90
            /\ days >= 90 => NoticeFlagsOf(r) = {}
            /\ days < 90 => Cardinality(NoticeFlagsOf(r)) = 1
            /\ state = "fail" <=> late
            /\ state = "pass" <=> NoticeFlagsOf(r) = {}

\* A notice sent 89 days before renewal: one day short.
C20_Witness ==
    /\ Audited
    /\ req[1].renewal_date.kind = "iso" /\ req[1].notice_sent_date.kind = "iso"
    /\ req[1].renewal_date.day - req[1].notice_sent_date.day = 89
    /\ HasFlag(res[1], "notice_lt_90")
    /\ check_notice_window(req[1].renewal_date, req[1].notice_sent_date) = "fail"

(***************************************************************************)
(* Verification beside appends in flight                                   *)
(***************************************************************************)
\* C21: ledger_verify is read-only and tolerates a chain mid-append: a
\* verification never changes the store, and on an intact chain it returns
\* (True, "OK") for the entries it reads whatever appends are in flight
\* between their head read and their set.
C21_VerifyReadOnly ==
    [][(pc' = pc /\ ret' # ret) =>
          /\ store' = store /\ genuine' = genuine
          /\ ret'[1] = "verify"
          /\ ChainValid(store) => ret' = <<"verify", TRUE, "OK">>]_vars

\* A verification that returned OK while an append was in flight: the writer
\* has read a head that another append has since replaced, and the last
\* ledger call to return is the verification.
C21_Witness ==
    /\ \E p \in Procs : pc[p] = "write" /\ last[p] # _ledger_head(store)
    /\ ChainValid(store)
    /\ ret = <<"verify", TRUE, "OK">>

(***************************************************************************)
(* Span offsets and excerpts                                               *)
(***************************************************************************)
\* C22: every Finding of _find_spans for a text satisfies
\* 0 <= start <= end <= len(text) and excerpt == text[start:end], text being
\* the input as given, also when normalisation shortened the text and when
\* the matched phrase occurs more than once.
C22_SpanInvariant ==
    (found # <<>> /\ found[2] # RegexError) =>
        \A i \in DOMAIN found[2] :
            LET f == found[2][i]
            IN  /\ 0 <= f.start /\ f.start <= f.end /\ f.end <= Len(found[1])
                /\ f.excerpt = Slice(found[1], f.start, f.end)

(***************************************************************************)
(* Malformed rule patterns                                                 *)
(***************************************************************************)
\* C23: a malformed rule pattern fails fast at startup, never per document:
\* a rule table with a malformed pattern is never loaded, and no call of
\* _find_spans on a document fails with re.error.
C23_FailFast ==
    /\ rules.loaded => rules.malformed = {}
    /\ found # <<>> => found[2] # RegexError

(***************************************************************************)
(* The audit result on the page                                            *)
(***************************************************************************)
\* C24: the result the app displays, exports and puts in the ledger payload
\* is the one audit_contract computed: max_allowed_pct equals
\* allowed_increase_pct(current_rent, benchmark) and agrees with the
\* over-cap flag decided from it.
C24_ResultImmutable ==
    app.shown # <<>> =>
        LET a == app.form[1]
            r == app.shown[1]
            ai == r.allowed_increase
        IN  /\ r = audit_contract(a)
            /\ ai.max_allowed_pct
                  = allowed_increase_pct(a.current_rent, a.rera_avg_index)
            /\ OverCap(r) <=>
                  /\ a.rera_avg_index # <<>> /\ a.rera_avg_index[1] # 0
                  /\ ai.proposed_pct.num > ai.max_allowed_pct * ai.proposed_pct.den

\* C30: after "Run audit now", a click on "Append ledger entry" makes the
\* script run it triggers call ledger_append with the payload of the audit
\* on the page, and a click on "Verify ledger chain" makes it call
\* ledger_verify.  (A button is True only in the run its click triggers, so
\* the call is made in that run or never.)
C30_ClickReachesLedger ==
    [][/\ (app.click = "append" /\ app'.click = "none") =>
             app'.calls = Append(app.calls,
                 <<"ledger_append", LedgerPayload(app.form[1], app.shown[1])>>)
       /\ (app.click = "verify" /\ app'.click = "none") =>
             app'.calls = Append(app.calls, <<"ledger_verify">>)]_vars

(***************************************************************************)
(* First problem of a chain                                                *)
(***************************************************************************)
\* The entries in ascending index order, as the verification reads them.
Reading(s) == OrderedDocs(s, DOMAIN s)

HashFault(s, k) ==
    Recomputed(s[Reading(s)[k]]) # s[Reading(s)[k]].this_hash

LinkFault(s, k) ==
    k > 1 /\ s[Reading(s)[k]].prev_hash # s[Reading(s)[k - 1]].this_hash

Faulty(s) ==
    {k \in 1..Len(Reading(s)) : HashFault(s, k) \/ LinkFault(s, k)}

\* C25: ledger_verify replays the chain in ascending index order and reports
\* the first problem only: no problem gives (true, "OK"); otherwise the
\* message names the index N of the first faulty entry, the smallest index
\* with a problem, as "Hash mismatch at index N" when that entry's hash is
\* wrong (also when its link is wrong too) and else "Broken link at index N".
C25_FirstProblemOnly ==
    LET docs == Reading(store)
        F == Faulty(store)
    IN  IF F = {} THEN ledger_verify(store) = <<TRUE, "OK">>
        ELSE LET k == CHOOSE x \in F : \A y \in F : x <= y
                 N == store[docs[k]].index
             IN  /\ \A y \in F : N <= store[docs[y]].index
                 /\ ledger_verify(store) =
                       <<FALSE,
                         (IF HashFault(store, k) THEN "Hash mismatch at index "
                          ELSE "Broken link at index ") \o ToString(N)>>

\* Both problems at the second of three entries; the verification has
\* reported the hash mismatch at its index 1.
C25_Witness ==
    /\ Len(Reading(store)) = 3
    /\ ~HashFault(store, 1)
    /\ HashFault(store, 2) /\ LinkFault(store, 2)
    /\ ret = <<"verify", FALSE, "Hash mismatch at index 1">>
    /\ ret = <<"verify">> \o ledger_verify(store)

(***************************************************************************)
(* Clause verdicts                                                         *)
(***************************************************************************)
\* The rule table has a rule of a severity other than good that matches text.
Adverse(text) ==
    \E k \in DOMAIN RULES_REGEX, i \in DOMAIN text :
        text[i] = RULES_REGEX[k].regex /\ RULES_REGEX[k].severity # "good"

\* C26: audit_clauses returns one result per clause, in input order; a
\* clause's verdict is fail exactly when the rule matcher has at least one
\* adverse finding (severity other than good) for its text and pass
\* otherwise, never warn; issues is empty exactly when the verdict is pass.
C26_ClauseVerdicts ==
    verdicts # <<>> =>
        LET clauses == verdicts[1]
            out == verdicts[2]
        IN  /\ Len(out) = Len(clauses)
            /\ \A i \in DOMAIN out :
                  /\ out[i].clause = clauses[i].num
                  /\ out[i].text = clauses[i].text
                  /\ out[i].verdict \in {"pass", "fail"}
                  /\ out[i].verdict = "fail" <=> Adverse(clauses[i].text)
                  /\ out[i].issues = <<>> <=> out[i].verdict = "pass"

\* A clause with a good finding only passes and the next clause fails.
C26_Witness ==
    /\ verdicts # <<>>
    /\ Len(verdicts[1]) = 2
    /\ verdicts[1][1].text = <<"notice90">>
    /\ verdicts[2][1].verdict = "pass"
    /\ verdicts[2][2].verdict = "fail"
    /\ Len(verdicts[2][2].issues) = 2

(***************************************************************************)
(* Proposed percentage                                                     *)
(***************************************************************************)
\* C27: proposed_pct is (proposed - current) / max(current, 1) * 100 and is
\* never a division by zero: with current = 0 the denominator is 1 and the
\* result is proposed * 100; with current >= 1 it is the true percentage
\* change (proposed - current) * 100 / current.
C27_ProposedPct ==
    Audited =>
        LET pp == res[1].allowed_increase.proposed_pct
            current == req[1].current_rent
            proposed == req[1].proposed_rent
        IN  /\ pp.den # 0
            /\ current = 0 => pp = [num |-> proposed * 100, den |-> 1]
            /\ current >= 1 =>
                  pp = [num |-> (proposed - current) * 100, den |-> current]

\* A first letting audited: current rent 0, proposed 60000, reported as
\* 6000000 per cent.
C27_Witness ==
    /\ Audited
    /\ req[1].current_rent = 0 /\ req[1].proposed_rent = 60000
    /\ res[1].allowed_increase.proposed_pct = [num |-> 6000000, den |-> 1]

(***************************************************************************)
(* Merged intervals                                                        *)
(***************************************************************************)
\* The offsets covered by some marker of the list.
Covered(list) ==
    {pos \in 0..MaxPos : \E i \in DOMAIN list : Covers(list[i], pos)}

\* C28: for every list of markers with start <= end, _merge_markers returns
\* an ordered list of non-overlapping intervals: starts strictly increasing,
\* every interval starting strictly after the previous one ends, and the
\* offsets covered by the output are exactly those covered by the input.
C28_MinimalCover ==
    Merged =>
        /\ \A j \in 1..(Len(merge[2]) - 1) :
              /\ merge[2][j][1] < merge[2][j + 1][1]
              /\ merge[2][j][2] < merge[2][j + 1][1]
        /\ \A j \in DOMAIN merge[2] : merge[2][j][1] <= merge[2][j][2]
        /\ Covered(merge[2]) = Covered(merge[1])

\* Three markers given out of order, two of them nested, merged into two
\* intervals with an uncovered offset between them.
C28_Witness ==
    /\ Merged
    /\ merge[1] = << <<2, 3, "good">>, <<0, 1, "bad">>, <<0, 0, "good">> >>
    /\ merge[2] = << <<0, 1, "bad">>, <<2, 3, "good">> >>
    /\ Covered(merge[2]) = {0, 2}

(***************************************************************************)
(* Chains built by concurrent appends                                      *)
(***************************************************************************)
\* C29: with no out-of-band modification of the store, every chain that
\* interleaved ledger_append calls (a read of the head, then a write of
\* index head + 1) can build is accepted by ledger_verify with
\* (true, "OK"): no hash mismatch and no broken link is reported.
C29_InterleavingsVerify ==
    tampers = 0 => ledger_verify(store) = <<TRUE, "OK">>

====
